---------------------------- MODULE Spec2Model ----------------------------
(***************************************************************************)
(* Household Ticket System: the ticket state machine                        *)
(* (packages/domain/src/ticketStateMachine.ts), the ticket service that     *)
(* applies it (services/ticketService.ts), and the chat tools that change   *)
(* tickets (services/chatService.ts, both versions found in the sources).   *)
(***************************************************************************)
EXTENDS Integers, Sequences, FiniteSets, Bags, TLC

VARIABLES
    vtIn,       \* the arguments of one validateTransition call
    vtOut,      \* its outcome, NoResult before the call
    ticketRow,  \* one ticket: its Ticket row with its TicketPhoto and
                \* RecurringInstance rows
    audit,      \* the TicketAuditLog rows of that ticket, as a bag of rows
    inflight,   \* handlers suspended at an await, as a bag of their frames
    resp,       \* the answer of the handler that answered last
    scIn,       \* the ScoringInput of one computeScore call
    scOut,      \* its ScoreBreakdown, NoScore before the call
    rejections, \* history: how often the stored status went from needs_review
                \* to in_progress
    rpIn,       \* the arguments of one isRepeatIssue call
    rpOut,      \* its RepeatIssueResult, NoRepeatResult before the call
    clock,      \* the server's Date.now(), in milliseconds
    revokedToken, \* the rows of table RevokedToken
    authCalls,  \* the requests between two awaits of authenticate or logout
    authResp,   \* the outcome of the request that answered last
    loggedOut,  \* history: a logout has succeeded
    closedTickets, \* the closed Ticket rows of other ids in storage
    genCalls,   \* the runs of generateDueInstances between two awaits, for
                \* one active daily template, as a bag of the awaited calls
    generatedTickets, \* how many Ticket rows of that template were created today
    instanceRows,\* how many of its RecurringInstance rows were generated today
    saveCalls,  \* the computeAndSaveScore calls of one user between two
                \* awaits, as a bag of frames
    scoreRecords \* the ScoreRecord rows of that user

authVars == <<clock, revokedToken, authCalls, authResp, loggedOut>>

storedVars == <<closedTickets>>

genVars == <<genCalls, generatedTickets, instanceRows>>

saveVars == <<saveCalls, scoreRecords>>

vars == <<vtIn, vtOut, ticketRow, audit, inflight, resp, scIn, scOut, rejections,
          rpIn, rpOut,
          authVars,
          storedVars,
          genVars,
          saveVars>>

---------------------------------------------------------------------------
(* Types of ticketStateMachine.ts *)

Role == {"mother", "father", "employee"}

TicketStatus == {"open", "in_progress", "needs_review", "closed", "skipped"}

Severity == {"minor", "needs_fix_today", "immediate_interrupt"}

None == "none"

---------------------------------------------------------------------------
(* validateTransition, ticketStateMachine.ts:34-113 *)

VALID_TRANSITIONS_OpenToReview ==
    [s \in TicketStatus |->
        CASE s = "open"         -> <<"in_progress", "skipped", "needs_review">>
          [] s = "in_progress"  -> <<"needs_review", "skipped">>
          [] s = "needs_review" -> <<"closed", "in_progress">>
          [] OTHER              -> <<>>]

VALID_TRANSITIONS ==
    [s \in TicketStatus |->
        CASE s = "open"         -> <<"in_progress", "skipped">>
          [] s = "in_progress"  -> <<"needs_review", "skipped">>
          [] s = "needs_review" -> <<"closed", "in_progress">>
          [] s = "closed"       -> <<>>
          [] s = "skipped"      -> <<>>]

AUTHORITY_ONLY_TRANSITIONS ==
    { <<"needs_review", "closed">>,
      <<"needs_review", "in_progress">>,
      <<"open", "skipped">>,
      <<"in_progress", "skipped">> }

isAuthority_MotherOnly(role) == role = "mother"

isAuthority_Everyone(role) == TRUE

isAuthority(role) == role = "mother" \/ role = "father"

\* validTargets.includes(to)
Includes(seq, x) == \E i \in 1..Len(seq) : seq[i] = x

\* A thrown TicketTransitionError: the cause, and the values its message
\* names, interpolated or literal ("is closed", "cannot be skipped"); None
\* where the message does not name the value.  The error object has no
\* field but the message.
TransitionError(cause, id, from, to, role, targets) ==
    [ok |-> FALSE, isRejection |-> FALSE, cause |-> cause, id |-> id,
     from |-> from, to |-> to, role |-> role, targets |-> targets]

TransitionOk(isRejection) ==
    [ok |-> TRUE, isRejection |-> isRejection, cause |-> None, id |-> None,
     from |-> None, to |-> None, role |-> None, targets |-> <<>>]

\* No outcome: the call has not returned, or the handler threw nothing.
NoResult ==
    [ok |-> FALSE, isRejection |-> FALSE, cause |-> None, id |-> None,
     from |-> None, to |-> None, role |-> None, targets |-> <<>>]

isRejectionPair_AnyFromReview(from, to) == from = "needs_review"

\* line 110
isRejectionPair(from, to) == from = "needs_review" /\ to = "in_progress"

skipBlocked_Never(to, ticket) == FALSE

\* line 92
skipBlocked(to, ticket) == to = "skipped" /\ ~ticket.isRecurring

validateTransition_AuthorityBypass(from, to, actorRole, ticket) ==
    IF isAuthority(actorRole)
    THEN TransitionOk(isRejectionPair(from, to))
    ELSE IF from = "closed" \/ from = "skipped"
    THEN TransitionError("terminal", ticket.id, from, None, None, <<>>)
    ELSE IF ~Includes(VALID_TRANSITIONS[from], to)
    THEN TransitionError("invalid", None, from, to, None, VALID_TRANSITIONS[from])
    ELSE IF skipBlocked(to, ticket)
    THEN TransitionError("not_recurring", ticket.id, None, "skipped", None, <<>>)
    ELSE IF <<from, to>> \in AUTHORITY_ONLY_TRANSITIONS
    THEN TransitionError("authority", None, from, to, actorRole, <<>>)
    ELSE TransitionOk(isRejectionPair(from, to))

validateTransition_AuthorityBeforeSkip(from, to, actorRole, ticket) ==
    IF from = "closed"
    THEN TransitionError("terminal", ticket.id, "closed", None, None, <<>>)
    ELSE IF from = "skipped"
    THEN TransitionError("terminal", ticket.id, "skipped", None, None, <<>>)
    ELSE IF ~Includes(VALID_TRANSITIONS[from], to)
    THEN TransitionError("invalid", None, from, to, None, VALID_TRANSITIONS[from])
    ELSE IF (<<from, to>> \in AUTHORITY_ONLY_TRANSITIONS) /\ ~isAuthority(actorRole)
    THEN TransitionError("authority", None, from, to, actorRole, <<>>)
    ELSE IF skipBlocked(to, ticket)
    THEN TransitionError("not_recurring", ticket.id, None, "skipped", None, <<>>)
    ELSE TransitionOk(isRejectionPair(from, to))

validateTransition(from, to, actorRole, ticket) ==
    IF from = "closed"
    THEN TransitionError("terminal", ticket.id, "closed", None, None, <<>>)
    ELSE IF from = "skipped"
    THEN TransitionError("terminal", ticket.id, "skipped", None, None, <<>>)
    ELSE IF ~Includes(VALID_TRANSITIONS[from], to)
    THEN TransitionError("invalid", None, from, to, None, VALID_TRANSITIONS[from])
    ELSE IF skipBlocked(to, ticket)
    THEN TransitionError("not_recurring", ticket.id, None, "skipped", None, <<>>)
    ELSE IF (<<from, to>> \in AUTHORITY_ONLY_TRANSITIONS) /\ ~isAuthority(actorRole)
    THEN TransitionError("authority", None, from, to, actorRole, <<>>)
    ELSE TransitionOk(isRejectionPair(from, to))

---------------------------------------------------------------------------
(* A specification of the pure function: one call on arbitrary arguments *)

VTIds == {"ticket-1", "abc-123"}

TicketContext ==
    [id : VTIds, status : TicketStatus, isRecurring : BOOLEAN, severity : Severity]

VTInput == [from : TicketStatus, to : TicketStatus, role : Role, ticket : TicketContext]

ValidateCall ==
    /\ vtOut = NoResult
    /\ vtOut' = validateTransition(vtIn.from, vtIn.to, vtIn.role, vtIn.ticket)
    /\ UNCHANGED <<saveVars, genVars, storedVars, authVars, vtIn, ticketRow, audit, inflight, resp, scIn, scOut, rejections, rpIn, rpOut>>

---------------------------------------------------------------------------
(* computeScore, scoringEngine.ts:106-289.  A JavaScript number is modelled *)
(* as an exact fraction <<numerator, denominator>> in lowest terms with a   *)
(* positive denominator, so every operation below is the real-valued one;   *)
(* the rounding of IEEE doubles is not modelled.  Date.getTime() values are *)
(* counted in minutes, not milliseconds (31 days of milliseconds exceed the *)
(* integers of the model checker); every duration of the engine is a whole  *)
(* number of minutes.                                                       *)

EventType == {"rejection", "failed_inspection", "completed", "skipped"}

Abs(n) == IF n < 0 THEN -n ELSE n

RECURSIVE GCD(_, _)
GCD(a, b) == IF b = 0 THEN a ELSE GCD(b, a % b)

\* the number n / d, d # 0
Frac(n, d) ==
    LET g == GCD(Abs(n), Abs(d))
        s == IF d < 0 THEN -1 ELSE 1
    IN  <<(s * n) \div g, (s * d) \div g>>

Num(n) == <<n, 1>>

Plus(a, b) == Frac(a[1] * b[2] + b[1] * a[2], a[2] * b[2])

Minus(a, b) == Frac(a[1] * b[2] - b[1] * a[2], a[2] * b[2])

Times(a, b) == Frac(a[1] * b[1], a[2] * b[2])

\* a / b, b # 0
Over(a, b) == Frac(a[1] * b[2], a[2] * b[1])

Less(a, b) == a[1] * b[2] < b[1] * a[2]

\* Math.max
MathMax(a, b) == IF Less(a, b) THEN b ELSE a

\* Math.ceil
MathCeil(a) == Num(-((-a[1]) \div a[2]))

SEVERITY_MULTIPLIER_Flat ==
    [s \in Severity |-> 1]

SEVERITY_MULTIPLIER ==
    [s \in Severity |->
        CASE s = "minor"               -> 1
          [] s = "needs_fix_today"     -> 2
          [] s = "immediate_interrupt" -> 4]

\* 60 * 60 * 1000 ms, in minutes
HOUR_MS == 60

\* 2, 8 and 48 hours, in minutes
SPEED_DEADLINE_MS ==
    [s \in Severity |->
        CASE s = "immediate_interrupt" -> 2 * 60
          [] s = "needs_fix_today"     -> 8 * 60
          [] s = "minor"               -> 48 * 60]

\* 24 hours of local time, in minutes (no change of clock in between)
DAY_MS == 1440

\* getFullYear, getMonth and getDate agree
isSameCalendarDay(a, b) == (a \div DAY_MS) = (b \div DAY_MS)

\* the inner loop of computeQuality: the events of one ticket
RECURSIVE qualityOfEvents(_, _, _)
qualityOfEvents(score, events, mult) ==
    IF events = <<>> THEN score
    ELSE LET event == Head(events)
         IN  qualityOfEvents(
                 IF event = "rejection" THEN score - 15 * mult
                 ELSE IF event = "failed_inspection" THEN score - 10 * mult
                 ELSE score,
                 Tail(events), mult)

\* the outer loop of computeQuality
RECURSIVE qualityOfTickets(_, _)
qualityOfTickets(score, tickets) ==
    IF tickets = <<>> THEN score
    ELSE LET ticket == Head(tickets)
         IN  qualityOfTickets(
                 qualityOfEvents(score, ticket.events,
                                 SEVERITY_MULTIPLIER[ticket.severity]),
                 Tail(tickets))

computeQuality(tickets) == Num(qualityOfTickets(100, tickets))

computeConsistency_BonusAlways(tickets) ==
    LET total == Len(SelectSeq(tickets, LAMBDA t : t.isRecurring))
        skippedCount == Len(SelectSeq(tickets, LAMBDA t : t.isRecurring /\ t.wasSkipped))
    IN  IF total = 0 THEN Num(100)
        ELSE Plus(Minus(Num(100), Times(Num(skippedCount), Over(Num(50), Num(total)))),
                  Num(10))

computeConsistency_PenaltyPerSkip(tickets) ==
    LET total == Len(SelectSeq(tickets, LAMBDA t : t.isRecurring))
        skippedCount == Len(SelectSeq(tickets, LAMBDA t : t.isRecurring /\ t.wasSkipped))
        skippedPenalty == Times(Num(skippedCount), Num(50))
        streakBonus == IF skippedCount = 0 THEN 10 ELSE 0
    IN  IF total = 0 THEN Num(100)
        ELSE Plus(Minus(Num(100), skippedPenalty), Num(streakBonus))

computeConsistency(tickets) ==
    LET total == Len(SelectSeq(tickets, LAMBDA t : t.isRecurring))
        skippedCount == Len(SelectSeq(tickets, LAMBDA t : t.isRecurring /\ t.wasSkipped))
        skippedPenalty == Times(Num(skippedCount), Over(Num(50), Num(total)))
        hasZeroSkips == skippedCount = 0
        streakBonus == IF hasZeroSkips THEN 10 ELSE 0
    IN  IF total = 0 THEN Num(100)
        ELSE Plus(Minus(Num(100), skippedPenalty), Num(streakBonus))

computeSpeedForTicket_NoFloor(ticket) ==
    IF ticket.submittedAt = <<>> THEN Num(100)
    ELSE LET deadline == SPEED_DEADLINE_MS[ticket.severity]
             elapsed == ticket.submittedAt[1] - ticket.openedAt
             hoursOver == MathCeil(Frac(elapsed - deadline, HOUR_MS))
             penalty == Times(hoursOver, Num(5))
         IN  IF elapsed <= deadline THEN Num(100)
             ELSE Minus(Num(100), penalty)

\* submittedAt is <<>> when undefined, <<t>> otherwise
computeSpeedForTicket(ticket) ==
    IF ticket.submittedAt = <<>> THEN Num(100)
    ELSE LET deadline == SPEED_DEADLINE_MS[ticket.severity]
             elapsed == ticket.submittedAt[1] - ticket.openedAt
             hoursOver == MathCeil(Frac(elapsed - deadline, HOUR_MS))
             penalty == Times(hoursOver, Num(5))
         IN  IF elapsed <= deadline THEN Num(100)
             ELSE IF /\ ticket.severity = "minor"
                     /\ \/ isSameCalendarDay(ticket.openedAt, ticket.submittedAt[1])
                        \/ elapsed <= deadline
             THEN Num(100)
             ELSE MathMax(Num(-100), Minus(Num(100), penalty))

\* scores.reduce((sum, s) => sum + s, 0)
RECURSIVE sumOfScores(_, _)
sumOfScores(sum, tickets) ==
    IF tickets = <<>> THEN sum
    ELSE sumOfScores(Plus(sum, computeSpeedForTicket(Head(tickets))), Tail(tickets))

computeSpeed_AllTickets(tickets) ==
    IF Len(tickets) = 0 THEN Num(100)
    ELSE Over(sumOfScores(Num(0), tickets), Num(Len(tickets)))

computeSpeed(tickets) ==
    LET submitted == SelectSeq(tickets, LAMBDA t : t.submittedAt # <<>>)
    IN  IF Len(submitted) = 0 THEN Num(100)
        ELSE Over(sumOfScores(Num(0), submitted), Num(Len(submitted)))

computeVolume_ZeroMaxFull(completedCount, maxCompletedByAnyUser) ==
    IF maxCompletedByAnyUser = 0 THEN Num(100)
    ELSE Times(Over(Num(completedCount), Num(maxCompletedByAnyUser)), Num(100))

computeVolume(completedCount, maxCompletedByAnyUser) ==
    IF maxCompletedByAnyUser = 0 THEN Num(0)
    ELSE Times(Over(Num(completedCount), Num(maxCompletedByAnyUser)), Num(100))

\* the weighted sum of computeScore
weightedTotal_Clamped(quality, consistency, speed, volume) ==
    MathMax(Num(0),
        Plus(Plus(Plus(Times(quality, Frac(4, 10)), Times(consistency, Frac(3, 10))),
                  Times(speed, Frac(2, 10))),
             Times(volume, Frac(1, 10))))

weightedTotal(quality, consistency, speed, volume) ==
    Plus(Plus(Plus(Times(quality, Frac(4, 10)), Times(consistency, Frac(3, 10))),
              Times(speed, Frac(2, 10))),
         Times(volume, Frac(1, 10)))

computeScore(input) ==
    LET quality == computeQuality(input.tickets)
        consistency == computeConsistency(input.tickets)
        speed == computeSpeed(input.tickets)
        volume == computeVolume(input.completedCount, input.maxCompletedByAnyUser)
    IN  [quality |-> quality, consistency |-> consistency, speed |-> speed,
         volume |-> volume,
         total |-> weightedTotal(quality, consistency, speed, volume)]

\* No ScoreBreakdown: computeScore has not returned
NoScore == <<>>

ComputeScoreCall ==
    /\ scOut = NoScore
    /\ scOut' = <<computeScore(scIn)>>
    /\ UNCHANGED <<saveVars, genVars, storedVars, authVars, scIn, vtIn, vtOut, ticketRow, audit, inflight, resp, rejections, rpIn, rpOut>>

---------------------------------------------------------------------------
(* A specification of computeScore: one call on an input drawn from        *)
(* families of inputs, each varying the fields one dimension reads.         *)

MaxTickets == 2
MaxEvents == 1
MaxRecurring == 3
MaxCount == 4

SeqsUpTo(S, n) == UNION {[1..k -> S] : k \in 0..n}

\* makeTicket of the engine's tests: a minor ticket opened at 08:00 and
\* submitted two hours later
DefaultTicket ==
    [id |-> "ticket-1", severity |-> "minor", isRecurring |-> FALSE,
     isInspection |-> FALSE, openedAt |-> 480, submittedAt |-> <<600>>,
     events |-> <<"completed">>, wasSkipped |-> FALSE]

\* the two events computeQuality penalises and one it ignores
QualityEvents == {"rejection", "failed_inspection", "completed"}

QualityTickets ==
    {[DefaultTicket EXCEPT !.severity = s, !.events = e] :
        s \in Severity, e \in SeqsUpTo(QualityEvents, MaxEvents)}

ConsistencyTickets ==
    {[DefaultTicket EXCEPT !.isRecurring = r, !.wasSkipped = w] :
        r \in BOOLEAN, w \in BOOLEAN}

\* opened at 08:00 or at 23:50
OpenedAt == {480, 1430}

\* minutes between the deadline and the submission: an hour early, on the
\* deadline, 1, 30, 60 and 90 minutes late, 39.5 and 40 hours late, 31 days
\* late
OverBy == {-60, 0, 1, 30, 60, 90, 2370, 2400, 44640}

SpeedTickets ==
    UNION {
        {[DefaultTicket EXCEPT !.severity = s, !.openedAt = o, !.submittedAt = sub] :
            sub \in {<<>>} \cup {<<o + SPEED_DEADLINE_MS[s] + d>> : d \in OverBy}} :
        s \in Severity, o \in OpenedAt}

\* the tickets of the inputs that vary the mean: not submitted, on the
\* deadline, 30 minutes, 40 hours and 31 days late
MeanTickets ==
    {[DefaultTicket EXCEPT !.submittedAt = sub] :
        sub \in {<<>>} \cup {<<480 + SPEED_DEADLINE_MS["minor"] + d>> :
                                d \in {0, 30, 2400, 44640}}}

MixedTickets ==
    { [DefaultTicket EXCEPT !.severity = "immediate_interrupt",
                            !.submittedAt = <<480 + 120 + 2400>>,
                            !.events = <<"rejection", "rejection">>],
      [DefaultTicket EXCEPT !.isRecurring = TRUE, !.wasSkipped = TRUE,
                            !.submittedAt = <<>>, !.events = <<"skipped">>],
      [DefaultTicket EXCEPT !.isRecurring = TRUE],
      [DefaultTicket EXCEPT !.severity = "needs_fix_today",
                            !.submittedAt = <<480 + 480 + 30>>],
      [DefaultTicket EXCEPT !.submittedAt = <<480 + 2880 + 44640>>,
                            !.events = <<"failed_inspection", "completed">>] }

ScoringInput(tickets, completedCount, maxCompletedByAnyUser) ==
    [tickets |-> tickets, completedCount |-> completedCount,
     maxCompletedByAnyUser |-> maxCompletedByAnyUser]

ScoringInputs ==
    {ScoringInput(t, 1, 1) : t \in SeqsUpTo(QualityTickets, MaxTickets)}
    \cup {ScoringInput(t, 1, 1) : t \in SeqsUpTo(ConsistencyTickets, MaxRecurring)}
    \cup {ScoringInput(<<t>>, 1, 1) : t \in SpeedTickets}
    \cup {ScoringInput(t, 1, 1) : t \in SeqsUpTo(MeanTickets, MaxTickets)}
    \cup {ScoringInput(<<>>, c, m) : c \in 0..MaxCount, m \in 0..MaxCount}
    \cup {ScoringInput(t, c, m) :
            t \in SeqsUpTo(MixedTickets, MaxTickets), c \in 0..1, m \in 0..1}

\* makeInput of the engine's tests
NoInput == ScoringInput(<<>>, 0, 0)

---------------------------------------------------------------------------
(* isRepeatIssue, ticketStateMachine.ts:115-166.  A string is a sequence of *)
(* letters; a Date is its getTime(), in milliseconds.                       *)

Letters == {"k", "K", "b"}

\* String.prototype.toLowerCase, letter by letter
LowerOf == [c \in Letters |-> IF c = "K" THEN "k" ELSE c]

toLowerCase(s) == [i \in DOMAIN s |-> LowerOf[s[i]]]

REPEAT_WINDOW_MS == 7 * 24 * 60 * 60 * 1000

\* RepeatIssueResult; previousTicketId is None when the property is absent
RepeatIssueResult(isRepeat, previousTicketId) ==
    [isRepeat |-> isRepeat, previousTicketId |-> previousTicketId]

\* the predicate of recentClosedTickets.find, lines 154-158
repeatMatch_CaseSensitive(t, newTicket) ==
    /\ t.area = newTicket.area
    /\ t.category = newTicket.category
    /\ t.closedAt >= newTicket.createdAt - REPEAT_WINDOW_MS
    /\ t.closedAt <= newTicket.createdAt

repeatMatch(t, newTicket) ==
    LET windowStart == newTicket.createdAt - REPEAT_WINDOW_MS
    IN  /\ toLowerCase(t.area) = toLowerCase(newTicket.area)
        /\ toLowerCase(t.category) = toLowerCase(newTicket.category)
        /\ t.closedAt >= windowStart
        /\ t.closedAt <= newTicket.createdAt

\* Array.prototype.find: the index of the first element that satisfies the
\* predicate, 0 when there is none
RECURSIVE findMatch(_, _, _)
findMatch(recentClosedTickets, newTicket, i) ==
    IF i > Len(recentClosedTickets) THEN 0
    ELSE IF repeatMatch(recentClosedTickets[i], newTicket) THEN i
    ELSE findMatch(recentClosedTickets, newTicket, i + 1)

RECURSIVE findLastMatch(_, _, _)
findLastMatch(recentClosedTickets, newTicket, i) ==
    IF i = 0 THEN 0
    ELSE IF repeatMatch(recentClosedTickets[i], newTicket) THEN i
    ELSE findLastMatch(recentClosedTickets, newTicket, i - 1)

isRepeatIssue_LastMatch(newTicket, recentClosedTickets) ==
    LET match == findLastMatch(recentClosedTickets, newTicket, Len(recentClosedTickets))
    IN  IF match # 0
        THEN RepeatIssueResult(TRUE, recentClosedTickets[match].id)
        ELSE RepeatIssueResult(FALSE, None)

isRepeatIssue(newTicket, recentClosedTickets) ==
    LET match == findMatch(recentClosedTickets, newTicket, 1)
    IN  IF match # 0
        THEN RepeatIssueResult(TRUE, recentClosedTickets[match].id)
        ELSE RepeatIssueResult(FALSE, None)

\* No RepeatIssueResult: isRepeatIssue has not returned
NoRepeatResult == <<>>

IsRepeatIssueCall ==
    /\ rpOut = NoRepeatResult
    /\ rpOut' = <<isRepeatIssue(rpIn.newTicket, rpIn.recentClosedTickets)>>
    /\ UNCHANGED <<saveVars, genVars, storedVars, authVars, rpIn, rejections, scIn, scOut, vtIn, vtOut, ticketRow, audit,
                   inflight, resp>>

---------------------------------------------------------------------------
(* A specification of isRepeatIssue: one call on a new ticket and a list of *)
(* candidates                                                               *)

MaxCandidates == 2

\* now of the detector's tests, 2024-01-15T12:00:00Z, counted from
\* 2024-01-01T00:00:00Z
RepeatNow == 14 * 86400000 + 12 * 3600000

Strings == [1..2 -> Letters]

\* closedAt of a candidate: 7 days and 1 second before creation, exactly 7
\* days before, 3 days before, at creation, 1 second after
ClosedAts ==
    { RepeatNow - REPEAT_WINDOW_MS - 1000, RepeatNow - REPEAT_WINDOW_MS,
      RepeatNow - 3 * 86400000, RepeatNow, RepeatNow + 1000 }

NewTickets ==
    [area : {<<"k", "b">>, <<"K", "b">>}, category : {<<"b", "k">>, <<"b", "K">>},
     createdAt : {RepeatNow}]

\* the ids the candidates carry, by their position in the list
CandidateIds == <<"old-ticket-1", "boundary-ticket", "old-1", "new-1">>

Candidates == [area : Strings, category : Strings, closedAt : ClosedAts]

\* the candidates of the longer lists: matching in either letter case, on
\* either boundary, too old, too late, of another area
ListCandidates ==
    { [area |-> <<"k", "b">>, category |-> <<"b", "k">>, closedAt |-> RepeatNow - REPEAT_WINDOW_MS],
      [area |-> <<"K", "b">>, category |-> <<"b", "K">>, closedAt |-> RepeatNow],
      [area |-> <<"k", "b">>, category |-> <<"b", "k">>, closedAt |-> RepeatNow - REPEAT_WINDOW_MS - 1000],
      [area |-> <<"k", "b">>, category |-> <<"b", "k">>, closedAt |-> RepeatNow + 1000],
      [area |-> <<"b", "b">>, category |-> <<"b", "k">>, closedAt |-> RepeatNow - 3 * 86400000] }

WithIds(list) ==
    [i \in DOMAIN list |->
        [id |-> CandidateIds[i], area |-> list[i].area,
         category |-> list[i].category, closedAt |-> list[i].closedAt]]

RepeatInput(newTicket, list) ==
    [newTicket |-> newTicket, recentClosedTickets |-> WithIds(list)]

RepeatInputs ==
    {RepeatInput(n, <<c>>) : n \in NewTickets, c \in Candidates}
    \cup {RepeatInput(n, l) : n \in NewTickets, l \in SeqsUpTo(ListCandidates, MaxCandidates)}

NoRepeatInput ==
    RepeatInput([area |-> <<"k", "b">>, category |-> <<"b", "k">>, createdAt |-> RepeatNow],
                <<>>)

---------------------------------------------------------------------------
(* Storage.  Every operation below is keyed by a ticket id and reads and   *)
(* writes only the rows of that ticket (its Ticket row and the             *)
(* TicketPhoto, TicketAuditLog and RecurringInstance rows that reference   *)
(* it), so the model follows the rows of one ticket id.  Columns that no   *)
(* operation modelled here reads are left out: title, description,         *)
(* severity, dueAt, createdById, assignedUserId of Ticket;                 *)
(* changedById and note of TicketAuditLog.  closedAt is kept as "set or    *)
(* null", and the photos as the set of photo types present (the code asks  *)
(* only whether there is a photo, a before photo, an after photo).         *)

MaxInflight == 1
MaxAudit == 4
MaxRaceInflight == 2
MaxRaceAudit == 5
MaxChatInflight == 1
MaxChatAudit == 3
MaxDeleteInflight == 1
MaxDeleteAudit == 3

TicketId == "ticket-1"

PhotoType == {"before", "after", "completion"}

\* area and category of the ticket the operations are followed for, when
\* the operation that creates it is not asked about them
DefaultArea == <<"k", "b">>

DefaultCategory == <<"b", "k">>

NoRow(state) ==
    [state |-> state, status |-> "open", isRecurring |-> FALSE,
     isInspection |-> FALSE, closedAt |-> FALSE, photos |-> {}, instance |-> FALSE,
     area |-> DefaultArea, category |-> DefaultCategory,
     isRepeatIssue |-> FALSE, previousTicketId |-> None]

Live == ticketRow.state = "live"

AuditEntry(from, to) == [from |-> from, to |-> to]

\* What a handler holds across an await: which handler it is, the database
\* call it waits for, the status it read, the status and the role it was
\* called with.
Frame(op, pc, from, to, role) ==
    [op |-> op, pc |-> pc, from |-> from, to |-> to, role |-> role]

Frames == BagToSet(inflight)

Suspend(f) == inflight (+) SetToBag({f})

Resume(f) == inflight (-) SetToBag({f})

Advance(f, g) == (inflight (-) SetToBag({f})) (+) SetToBag({g})

\* The answer of a handler: a code, and the TicketTransitionError if it
\* threw one.
Reply(code, result) == [code |-> code, result |-> result]

NoReply == Reply(None, NoResult)

NoVT == [from |-> "open", to |-> "open", role |-> "mother",
         ticket |-> [id |-> TicketId, status |-> "open",
                     isRecurring |-> FALSE, severity |-> "minor"]]

---------------------------------------------------------------------------
(* Ticket creation *)

\* The Ticket row of prisma.ticket.create; isRepeatIssue and
\* previousTicketId have the defaults of the schema (false, null) unless
\* the caller passes them.
NewRow(isRecurring, isInspection, instance) ==
    [state |-> "live", status |-> "open", isRecurring |-> isRecurring,
     isInspection |-> isInspection, closedAt |-> FALSE, photos |-> {},
     instance |-> instance,
     area |-> DefaultArea, category |-> DefaultCategory,
     isRepeatIssue |-> FALSE, previousTicketId |-> None]

\* prisma.ticket.findMany of createTicket, ticketService.ts:56-62: the closed
\* rows whose area and category equal the arguments (the equality filter of
\* the database, letter case included) and whose closedAt is not before the
\* window
recentClosed(area, category, now) ==
    {t \in closedTickets :
        /\ t.area = area
        /\ t.category = category
        /\ t.closedAt >= now - REPEAT_WINDOW_MS}

\* The query has no orderBy: its rows come in any order
Orderings(rows) ==
    {list \in [1..Cardinality(rows) -> rows] :
        \A i, j \in DOMAIN list : i # j => list[i] # list[j]}

\* The row createTicket inserts: the query, the detector on its rows, and
\* the detector's result in the two columns.  The three readings of the
\* server's clock (the query's window, createdAt of the detector's
\* argument, createdAt of the row) are one instant, now.
CreatedRow(isInspection, area, category, now, list) ==
    LET repeatResult ==
            isRepeatIssue([area |-> area, category |-> category, createdAt |-> now], list)
    IN  [NewRow(FALSE, isInspection, FALSE) EXCEPT
            !.area = area, !.category = category,
            !.isRepeatIssue = repeatResult.isRepeat,
            !.previousTicketId = repeatResult.previousTicketId]

\* prisma.ticket.create followed by the initial prisma.ticketAuditLog.create.
\* The id of the new ticket is known to no other request until both rows are
\* written and the handler answers, so the two inserts are one step.
InsertTicket(row) ==
    /\ ticketRow' = row
    /\ audit' = SetToBag({AuditEntry(None, "open")})

\* createTicket behind POST /api/tickets: the route's schema carries no
\* recurringTemplateId, so the ticket is not recurring.
CreateTicket(role, severity, isInspection, area, category) ==
    /\ ticketRow.state = "absent"
    /\ IF severity = "immediate_interrupt" /\ role = "employee"
       THEN /\ resp' = Reply("forbidden", NoResult)
            /\ UNCHANGED <<ticketRow, audit>>
       ELSE /\ \E list \in Orderings(recentClosed(area, category, RepeatNow)) :
                  InsertTicket(CreatedRow(isInspection, area, category, RepeatNow, list))
            /\ resp' = Reply("ok", NoResult)
    /\ UNCHANGED <<saveVars, genVars, storedVars, authVars, rpIn, rpOut, rejections, scIn, scOut, vtIn, vtOut, inflight>>

\* executeTool, case 'create_ticket' (the same in both chat services): the
\* row is inserted without the query and without the detector
ChatCreateTicket(role, severity, isInspection, area, category) ==
    /\ ticketRow.state = "absent"
    /\ IF severity = "immediate_interrupt" /\ role = "employee"
       THEN /\ resp' = Reply("forbidden", NoResult)
            /\ UNCHANGED <<ticketRow, audit>>
       ELSE /\ InsertTicket([NewRow(FALSE, isInspection, FALSE) EXCEPT
                                !.area = area, !.category = category])
            /\ resp' = Reply("ok", NoResult)
    /\ UNCHANGED <<saveVars, genVars, storedVars, authVars, rpIn, rpOut, rejections, scIn, scOut, vtIn, vtOut, inflight>>

\* generateDueInstances for a template that is due: the ticket with the
\* template's area and category, its audit entry and its RecurringInstance
\* row.
GenerateDueInstances(area, category) ==
    /\ ticketRow.state = "absent"
    /\ InsertTicket([NewRow(TRUE, FALSE, TRUE) EXCEPT
                      !.area = area, !.category = category])
    /\ resp' = Reply("ok", NoResult)
    /\ UNCHANGED <<saveVars, genVars, storedVars, authVars, rpIn, rpOut, rejections, scIn, scOut, vtIn, vtOut, inflight>>

\* uploadPhoto behind POST /api/photos/upload: findUnique, then the insert of
\* the TicketPhoto row
UploadPhoto(photoType) ==
    /\ IF Live
       THEN /\ ticketRow' = [ticketRow EXCEPT !.photos = @ \cup {photoType}]
            /\ resp' = Reply("ok", NoResult)
       ELSE /\ resp' = Reply("not_found", NoResult)
            /\ UNCHANGED ticketRow
    /\ UNCHANGED <<saveVars, genVars, storedVars, authVars, rpIn, rpOut, rejections, scIn, scOut, vtIn, vtOut, audit, inflight>>

---------------------------------------------------------------------------
(* transitionTicket, ticketService.ts:112-191.  It awaits three database   *)
(* calls outside any transaction: findUnique, ticketAuditLog.create and    *)
(* ticket.update.  The code between two awaits runs without interleaving,  *)
(* so each action is one database call and the code that follows it.       *)

\* lines 137-156, on the row findUnique returned
PhotoRequirement(row, toStatus) ==
    IF toStatus # "needs_review" THEN "ok"
    ELSE IF row.photos = {} THEN "photo_required"
    ELSE IF row.isInspection /\ ~("before" \in row.photos /\ "after" \in row.photos)
    THEN "inspection_photos"
    ELSE "ok"

TransitionTicket_AuditBeforePhotoCheck(toStatus, actorRole) ==
    LET result == validateTransition(ticketRow.status, toStatus, actorRole,
                      [id |-> TicketId, status |-> ticketRow.status,
                       isRecurring |-> ticketRow.isRecurring, severity |-> "minor"])
    IN  /\ IF ~Live
           THEN /\ resp' = Reply("not_found", NoResult)
                /\ UNCHANGED <<inflight, audit>>
           ELSE IF ~result.ok
           THEN /\ resp' = Reply("transition_error", result)
                /\ UNCHANGED <<inflight, audit>>
           ELSE IF PhotoRequirement(ticketRow, toStatus) # "ok"
           THEN /\ resp' = Reply(PhotoRequirement(ticketRow, toStatus), NoResult)
                /\ audit' = audit (+) SetToBag({AuditEntry(ticketRow.status, toStatus)})
                /\ UNCHANGED inflight
           ELSE /\ inflight' = Suspend(Frame("transition", "audit", ticketRow.status,
                                             toStatus, actorRole))
                /\ UNCHANGED <<resp, audit>>
        /\ UNCHANGED <<saveVars, genVars, storedVars, authVars, rpIn, rpOut, rejections, scIn, scOut, vtIn, vtOut, ticketRow>>

\* lines 115-156: findUnique, validateTransition, the photo requirement
TransitionTicket(toStatus, actorRole) ==
    LET result == validateTransition(ticketRow.status, toStatus, actorRole,
                      [id |-> TicketId, status |-> ticketRow.status,
                       isRecurring |-> ticketRow.isRecurring, severity |-> "minor"])
    IN  /\ IF ~Live
           THEN /\ resp' = Reply("not_found", NoResult)
                /\ UNCHANGED inflight
           ELSE IF ~result.ok
           THEN /\ resp' = Reply("transition_error", result)
                /\ UNCHANGED inflight
           ELSE IF PhotoRequirement(ticketRow, toStatus) # "ok"
           THEN /\ resp' = Reply(PhotoRequirement(ticketRow, toStatus), NoResult)
                /\ UNCHANGED inflight
           ELSE /\ inflight' = Suspend(Frame("transition", "audit", ticketRow.status,
                                             toStatus, actorRole))
                /\ UNCHANGED resp
        /\ UNCHANGED <<saveVars, genVars, storedVars, authVars, rpIn, rpOut, rejections, scIn, scOut, vtIn, vtOut, ticketRow, audit>>

\* PATCH /api/tickets/:id/status (any authenticated role)
PatchStatus(toStatus, actorRole) == TransitionTicket(toStatus, actorRole)

\* executeTool, case 'update_ticket_status', of the chat service that goes
\* through the ticket service
ChatUpdateTicketStatus(newStatus, actorRole) ==
    IF actorRole = "employee" /\ newStatus \notin {"in_progress", "needs_review"}
    THEN /\ resp' = Reply("forbidden", NoResult)
         /\ UNCHANGED <<saveVars, genVars, storedVars, authVars, rpIn, rpOut, rejections, scIn, scOut, vtIn, vtOut, ticketRow, audit, inflight>>
    ELSE TransitionTicket(newStatus, actorRole)

\* lines 158-180: prisma.ticketAuditLog.create, the same row in both
\* branches but for its note (TicketAuditLog.ticketId references Ticket, so
\* the insert fails once the ticket row is gone)
TransitionAudit(f) ==
    /\ f.op = "transition" /\ f.pc = "audit"
    /\ IF Live
       THEN /\ audit' = audit (+) SetToBag({AuditEntry(f.from, f.to)})
            /\ inflight' = Advance(f, Frame("transition", "update", f.from, f.to,
                                            f.role))
            /\ UNCHANGED resp
       ELSE /\ inflight' = Resume(f)
            /\ resp' = Reply("db_error", NoResult)
            /\ UNCHANGED audit
    /\ UNCHANGED <<saveVars, genVars, storedVars, authVars, rpIn, rpOut, rejections, scIn, scOut, vtIn, vtOut, ticketRow>>

\* lines 182-190: prisma.ticket.update
TransitionUpdate(f) ==
    /\ f.op = "transition" /\ f.pc = "update"
    /\ inflight' = Resume(f)
    /\ IF Live
       THEN /\ ticketRow' = [ticketRow EXCEPT
                   !.status = f.to,
                   !.closedAt = IF f.to = "closed" THEN TRUE ELSE @]
            /\ rejections' = IF ticketRow.status = "needs_review" /\ f.to = "in_progress"
                             THEN rejections + 1
                             ELSE rejections
            /\ resp' = Reply("ok", NoResult)
       ELSE /\ resp' = Reply("db_error", NoResult)
            /\ UNCHANGED <<ticketRow, rejections>>
    /\ UNCHANGED <<saveVars, genVars, storedVars, authVars, rpIn, rpOut, scIn, scOut, vtIn, vtOut, audit>>

---------------------------------------------------------------------------
(* executeTool of apps/api/src/services/chatService.ts: update_ticket_status *)
(* writes the status itself.                                                 *)

\* lines 83-136: the tool gate, findUnique, the close check
ChatDirectUpdate(newStatus, actorRole) ==
    /\ IF actorRole = "employee"
       THEN /\ resp' = Reply("forbidden", NoResult)
            /\ UNCHANGED inflight
       ELSE IF ~Live
       THEN /\ resp' = Reply("not_found", NoResult)
            /\ UNCHANGED inflight
       ELSE IF newStatus = "closed" /\ actorRole = "employee"
       THEN /\ resp' = Reply("forbidden", NoResult)
            /\ UNCHANGED inflight
       ELSE /\ inflight' = Suspend(Frame("chat_direct", "update", ticketRow.status,
                                         newStatus, actorRole))
            /\ UNCHANGED resp
    /\ UNCHANGED <<saveVars, genVars, storedVars, authVars, rpIn, rpOut, rejections, scIn, scOut, vtIn, vtOut, ticketRow, audit>>

\* lines 138-144: prisma.ticket.update
ChatDirectWrite(f) ==
    /\ f.op = "chat_direct" /\ f.pc = "update"
    /\ IF Live
       THEN /\ ticketRow' = [ticketRow EXCEPT
                   !.status = f.to,
                   !.closedAt = IF f.to = "closed" THEN TRUE ELSE @]
            /\ rejections' = IF ticketRow.status = "needs_review" /\ f.to = "in_progress"
                             THEN rejections + 1
                             ELSE rejections
            /\ inflight' = Advance(f, Frame("chat_direct", "audit", f.from, f.to,
                                            f.role))
            /\ UNCHANGED resp
       ELSE /\ inflight' = Resume(f)
            /\ resp' = Reply("db_error", NoResult)
            /\ UNCHANGED <<ticketRow, rejections>>
    /\ UNCHANGED <<saveVars, genVars, storedVars, authVars, rpIn, rpOut, scIn, scOut, vtIn, vtOut, audit>>

\* lines 146-156: prisma.ticketAuditLog.create
ChatDirectAudit(f) ==
    /\ f.op = "chat_direct" /\ f.pc = "audit"
    /\ IF Live
       THEN /\ audit' = audit (+) SetToBag({AuditEntry(f.from, f.to)})
            /\ resp' = Reply("ok", NoResult)
       ELSE /\ resp' = Reply("db_error", NoResult)
            /\ UNCHANGED audit
    /\ inflight' = Resume(f)
    /\ UNCHANGED <<saveVars, genVars, storedVars, authVars, rpIn, rpOut, rejections, scIn, scOut, vtIn, vtOut, ticketRow>>

---------------------------------------------------------------------------
(* executeTool, case 'delete_ticket': four deletes, one await each, no     *)
(* transaction.  TicketPhoto, TicketAuditLog and RecurringInstance         *)
(* reference Ticket ON DELETE RESTRICT.                                    *)

\* getAllowedTools (delete_ticket is a tool of the mother only), the role
\* check and findUnique
DeleteTicket(actorRole) ==
    /\ IF actorRole # "mother"
       THEN /\ resp' = Reply("forbidden", NoResult)
            /\ UNCHANGED inflight
       ELSE IF ~Live
       THEN /\ resp' = Reply("not_found", NoResult)
            /\ UNCHANGED inflight
       ELSE /\ inflight' = Suspend(Frame("delete", "photos", None, None, actorRole))
            /\ UNCHANGED resp
    /\ UNCHANGED <<saveVars, genVars, storedVars, authVars, rpIn, rpOut, rejections, scIn, scOut, vtIn, vtOut, ticketRow, audit>>

\* prisma.ticketPhoto.deleteMany
DeletePhotos(f) ==
    /\ f.op = "delete" /\ f.pc = "photos"
    /\ ticketRow' = [ticketRow EXCEPT !.photos = {}]
    /\ inflight' = Advance(f, Frame("delete", "audit", None, None, f.role))
    /\ UNCHANGED <<saveVars, genVars, storedVars, authVars, rpIn, rpOut, rejections, scIn, scOut, vtIn, vtOut, audit, resp>>

\* prisma.ticketAuditLog.deleteMany
DeleteAuditLogs(f) ==
    /\ f.op = "delete" /\ f.pc = "audit"
    /\ audit' = EmptyBag
    /\ inflight' = Advance(f, Frame("delete", "instances", None, None, f.role))
    /\ UNCHANGED <<saveVars, genVars, storedVars, authVars, rpIn, rpOut, rejections, scIn, scOut, vtIn, vtOut, ticketRow, resp>>

\* prisma.recurringInstance.deleteMany
DeleteInstances(f) ==
    /\ f.op = "delete" /\ f.pc = "instances"
    /\ ticketRow' = [ticketRow EXCEPT !.instance = FALSE]
    /\ inflight' = Advance(f, Frame("delete", "ticket", None, None, f.role))
    /\ UNCHANGED <<saveVars, genVars, storedVars, authVars, rpIn, rpOut, rejections, scIn, scOut, vtIn, vtOut, audit, resp>>

\* prisma.ticket.delete
DeleteRow(f) ==
    /\ f.op = "delete" /\ f.pc = "ticket"
    /\ inflight' = Resume(f)
    /\ IF Live /\ ticketRow.photos = {} /\ audit = EmptyBag /\ ~ticketRow.instance
       THEN /\ ticketRow' = NoRow("deleted")
            /\ resp' = Reply("ok", NoResult)
       ELSE /\ resp' = Reply("db_error", NoResult)
            /\ UNCHANGED ticketRow
    /\ UNCHANGED <<saveVars, genVars, storedVars, authVars, rpIn, rpOut, rejections, scIn, scOut, vtIn, vtOut, audit>>

---------------------------------------------------------------------------
(* Authentication: middleware/auth.ts authenticate, routes/auth.ts POST    *)
(* /logout and jobs/tokenCleanupCron.ts, for one token issued by a login.  *)
(* One second is SecondMs milliseconds.                                    *)

MaxClock == 4
MaxAuthInflight == 2

SecondMs == 2

\* the claims of the token: jti, and exp in seconds
TokenJti == "jti-1"
TokenExp == 1

Route == {"me", "logout"}

AuthFrame(route, later, pc) == [route |-> route, later |-> later, pc |-> pc]

AuthFrames == [route : Route, later : BOOLEAN, pc : {"revoked", "create"}]

AuthReply(route, later, status) == [route |-> route, later |-> later, status |-> status]

NoAuthReply == AuthReply("none", FALSE, "none")

RevokedRow(jti, expiresAt) == [jti |-> jti, expiresAt |-> expiresAt]

\* jwt.verify: jsonwebtoken throws TokenExpiredError when the clock, in whole
\* seconds, has reached exp
tokenExpired(now) == (now \div SecondMs) >= TokenExp

\* the where clause of the cron's deleteMany: expiresAt < new Date()
cleanupDue(row, now) == row.expiresAt < now

\* authenticate, lines 30-39: the token is read and verified; an expired
\* token is a JsonWebTokenError, answered 401
Authenticate(route) ==
    /\ IF tokenExpired(clock)
       THEN /\ authResp' = AuthReply(route, loggedOut, "401")
            /\ UNCHANGED authCalls
       ELSE /\ authCalls' = authCalls (+) SetToBag({AuthFrame(route, loggedOut, "revoked")})
            /\ UNCHANGED authResp
    /\ UNCHANGED <<clock, revokedToken, loggedOut>>
    /\ UNCHANGED <<saveVars, genVars, storedVars, rpIn, rpOut, rejections, scIn, scOut, vtIn, vtOut, ticketRow, audit,
                   inflight, resp>>

\* authenticate, lines 41-52: revokedToken.findUnique by jti, then 401 or
\* next(); behind next() GET /me answers and POST /logout goes on
AuthenticateRevoked(f) ==
    /\ f.pc = "revoked"
    /\ BagIn(f, authCalls)
    /\ IF \E row \in revokedToken : row.jti = TokenJti
       THEN /\ authResp' = AuthReply(f.route, f.later, "401")
            /\ authCalls' = authCalls (-) SetToBag({f})
       ELSE IF f.route = "logout"
       THEN /\ authCalls' = (authCalls (-) SetToBag({f}))
                               (+) SetToBag({AuthFrame(f.route, f.later, "create")})
            /\ authResp' = AuthReply(f.route, f.later, "next")
       ELSE /\ authResp' = AuthReply(f.route, f.later, "next")
            /\ authCalls' = authCalls (-) SetToBag({f})
    /\ UNCHANGED <<clock, revokedToken, loggedOut>>
    /\ UNCHANGED <<saveVars, genVars, storedVars, rpIn, rpOut, rejections, scIn, scOut, vtIn, vtOut, ticketRow, audit,
                   inflight, resp>>

\* POST /logout, routes/auth.ts:70-85: revokedToken.create with the token's
\* jti and expiresAt = exp * 1000; jti is unique
Logout(f) ==
    /\ f.pc = "create"
    /\ BagIn(f, authCalls)
    /\ authCalls' = authCalls (-) SetToBag({f})
    /\ IF \E row \in revokedToken : row.jti = TokenJti
       THEN /\ authResp' = AuthReply(f.route, f.later, "500")
            /\ UNCHANGED <<revokedToken, loggedOut>>
       ELSE /\ revokedToken' = revokedToken \cup {RevokedRow(TokenJti, TokenExp * SecondMs)}
            /\ loggedOut' = TRUE
            /\ authResp' = AuthReply(f.route, f.later, "200")
    /\ UNCHANGED clock
    /\ UNCHANGED <<saveVars, genVars, storedVars, rpIn, rpOut, rejections, scIn, scOut, vtIn, vtOut, ticketRow, audit,
                   inflight, resp>>

\* startTokenCleanupCron: revokedToken.deleteMany where expiresAt < now
TokenCleanup ==
    /\ revokedToken' = {row \in revokedToken : ~cleanupDue(row, clock)}
    /\ UNCHANGED <<clock, authCalls, authResp, loggedOut>>
    /\ UNCHANGED <<saveVars, genVars, storedVars, rpIn, rpOut, rejections, scIn, scOut, vtIn, vtOut, ticketRow, audit,
                   inflight, resp>>

\* time passes
ClockTick ==
    /\ clock < MaxClock
    /\ clock' = clock + 1
    /\ UNCHANGED <<revokedToken, authCalls, authResp, loggedOut>>
    /\ UNCHANGED <<saveVars, genVars, storedVars, rpIn, rpOut, rejections, scIn, scOut, vtIn, vtOut, ticketRow, audit,
                   inflight, resp>>

IdleAuth ==
    /\ clock = 0
    /\ revokedToken = {}
    /\ authCalls = EmptyBag
    /\ authResp = NoAuthReply
    /\ loggedOut = FALSE

---------------------------------------------------------------------------
(* generateDueInstances, recurringService.ts, followed for one active      *)
(* template of frequency daily during one calendar day.  A run is          *)
(* suspended at each await; the cron run, a manual POST                    *)
(* /api/recurring/instances/generate and a retry are runs of the same      *)
(* function.                                                               *)

MaxGenInflight == 3
MaxGenerated == 3

\* the awaited calls of one pass of the loop
GenPc == {"due", "ticket", "audit", "instance"}

GenSuspend(pc) == genCalls (+) SetToBag({pc})

GenAdvance(from, to) == (genCalls (-) SetToBag({from})) (+) SetToBag({to})

GenResume(pc) == genCalls (-) SetToBag({pc})

\* prisma.recurringTemplate.findMany returns the template; the run goes on
\* to isTemplateDueToday
GenerateFindTemplates ==
    /\ genCalls' = GenSuspend("due")
    /\ UNCHANGED <<generatedTickets, instanceRows>>
    /\ UNCHANGED <<saveVars, storedVars, authVars, rpIn, rpOut, rejections, scIn, scOut, vtIn, vtOut,
                   ticketRow, audit, inflight, resp>>

\* isTemplateDueToday: findFirst of a RecurringInstance row of the template
\* generated today; with one the template is skipped and the run ends,
\* without one a daily template is due
isTemplateDueToday ==
    /\ BagIn("due", genCalls)
    /\ IF instanceRows > 0
       THEN genCalls' = GenResume("due")
       ELSE genCalls' = GenAdvance("due", "ticket")
    /\ UNCHANGED <<generatedTickets, instanceRows>>
    /\ UNCHANGED <<saveVars, storedVars, authVars, rpIn, rpOut, rejections, scIn, scOut, vtIn, vtOut,
                   ticketRow, audit, inflight, resp>>

\* prisma.ticket.create of the instance
GenerateTicket ==
    /\ BagIn("ticket", genCalls)
    /\ generatedTickets' = generatedTickets + 1
    /\ genCalls' = GenAdvance("ticket", "audit")
    /\ UNCHANGED instanceRows
    /\ UNCHANGED <<saveVars, storedVars, authVars, rpIn, rpOut, rejections, scIn, scOut, vtIn, vtOut,
                   ticketRow, audit, inflight, resp>>

\* prisma.ticketAuditLog.create of the new ticket; no step of the generator
\* reads the row
GenerateAudit ==
    /\ BagIn("audit", genCalls)
    /\ genCalls' = GenAdvance("audit", "instance")
    /\ UNCHANGED <<generatedTickets, instanceRows>>
    /\ UNCHANGED <<saveVars, storedVars, authVars, rpIn, rpOut, rejections, scIn, scOut, vtIn, vtOut,
                   ticketRow, audit, inflight, resp>>

\* prisma.recurringInstance.create, after which the run returns
GenerateInstance ==
    /\ BagIn("instance", genCalls)
    /\ instanceRows' = instanceRows + 1
    /\ genCalls' = GenResume("instance")
    /\ UNCHANGED generatedTickets
    /\ UNCHANGED <<saveVars, storedVars, authVars, rpIn, rpOut, rejections, scIn, scOut, vtIn, vtOut,
                   ticketRow, audit, inflight, resp>>

\* One of the three creates rejects (the database is unreachable): the
\* function has no try and no transaction, the run ends with what it has
\* written so far
GenerateThrows(pc) ==
    /\ pc \in {"ticket", "audit", "instance"}
    /\ BagIn(pc, genCalls)
    /\ genCalls' = GenResume(pc)
    /\ UNCHANGED <<generatedTickets, instanceRows>>
    /\ UNCHANGED <<saveVars, storedVars, authVars, rpIn, rpOut, rejections, scIn, scOut, vtIn, vtOut,
                   ticketRow, audit, inflight, resp>>

IdleGenerator ==
    /\ genCalls = EmptyBag
    /\ generatedTickets = 0
    /\ instanceRows = 0

---------------------------------------------------------------------------
(* computeAndSaveScore, scoringService.ts, from the computed breakdown on: *)
(* the findFirst of the period's ScoreRecord and the update or create      *)
(* that follows it.  The calls are those of one user.                      *)

MaxSaveInflight == 2
MaxRecords == 3

\* period.start and period.end of a call, as one value
Periods == {"week-1", "week-2"}

\* breakdown.total of a call; the other four scores are written with it
Totals == {40, 75}

\* no ScoreRecord: findFirst returned null
NoRecordId == 0

ScoreRecordRow(id, period, total) == [id |-> id, period |-> period, total |-> total]

SaveFrame(period, total, pc, existing) ==
    [period |-> period, total |-> total, pc |-> pc, existing |-> existing]

SaveFrames == BagToSet(saveCalls)

\* computeScore has returned the breakdown; the call awaits findFirst
ComputeAndSaveScore(period, total) ==
    /\ saveCalls' = saveCalls (+) SetToBag({SaveFrame(period, total, "find", NoRecordId)})
    /\ UNCHANGED scoreRecords
    /\ UNCHANGED <<genVars, storedVars, authVars, rpIn, rpOut, rejections, scIn, scOut,
                   vtIn, vtOut, ticketRow, audit, inflight, resp>>

\* prisma.scoreRecord.findFirst: a row of the user and the period, any of
\* them when there are several (no orderBy), or null
SaveFindFirst(f) ==
    /\ f.pc = "find"
    /\ LET found == {r \in scoreRecords : r.period = f.period}
       IN  IF found = {}
           THEN saveCalls' = (saveCalls (-) SetToBag({f}))
                                (+) SetToBag({SaveFrame(f.period, f.total, "create", NoRecordId)})
           ELSE \E existing \in found :
                   saveCalls' = (saveCalls (-) SetToBag({f}))
                                   (+) SetToBag({SaveFrame(f.period, f.total, "update", existing.id)})
    /\ UNCHANGED scoreRecords
    /\ UNCHANGED <<genVars, storedVars, authVars, rpIn, rpOut, rejections, scIn, scOut,
                   vtIn, vtOut, ticketRow, audit, inflight, resp>>

\* prisma.scoreRecord.update where id = existing.id; no operation deletes a
\* ScoreRecord, so the row is there
SaveUpdate(f) ==
    /\ f.pc = "update"
    /\ scoreRecords' =
          {IF r.id = f.existing THEN ScoreRecordRow(r.id, r.period, f.total) ELSE r :
              r \in scoreRecords}
    /\ saveCalls' = saveCalls (-) SetToBag({f})
    /\ UNCHANGED <<genVars, storedVars, authVars, rpIn, rpOut, rejections, scIn, scOut,
                   vtIn, vtOut, ticketRow, audit, inflight, resp>>

\* prisma.scoreRecord.create: a row with a fresh id
SaveCreate(f) ==
    /\ f.pc = "create"
    /\ scoreRecords' =
          scoreRecords \cup {ScoreRecordRow(Cardinality(scoreRecords) + 1, f.period, f.total)}
    /\ saveCalls' = saveCalls (-) SetToBag({f})
    /\ UNCHANGED <<genVars, storedVars, authVars, rpIn, rpOut, rejections, scIn, scOut,
                   vtIn, vtOut, ticketRow, audit, inflight, resp>>

IdleSave ==
    /\ saveCalls = EmptyBag
    /\ scoreRecords = {}

---------------------------------------------------------------------------
(* Specifications *)

InitVT ==
    /\ vtIn \in VTInput
    /\ vtOut = NoResult
    /\ ticketRow = NoRow("absent")
    /\ audit = EmptyBag
    /\ inflight = EmptyBag
    /\ resp = NoReply
    /\ IdleSave
    /\ IdleGenerator
    /\ closedTickets = {}
    /\ IdleAuth
    /\ scIn = NoInput
    /\ scOut = NoScore
    /\ rejections = 0
    /\ rpIn = NoRepeatInput
    /\ rpOut = NoRepeatResult

NextVT == ValidateCall

SpecVT == InitVT /\ [][NextVT]_vars

InitRepeat ==
    /\ rpIn \in RepeatInputs
    /\ rpOut = NoRepeatResult
    /\ scIn = NoInput
    /\ scOut = NoScore
    /\ rejections = 0
    /\ vtIn = NoVT
    /\ vtOut = NoResult
    /\ ticketRow = NoRow("absent")
    /\ audit = EmptyBag
    /\ inflight = EmptyBag
    /\ resp = NoReply
    /\ IdleSave
    /\ IdleGenerator
    /\ closedTickets = {}
    /\ IdleAuth

NextRepeat == IsRepeatIssueCall

SpecRepeat == InitRepeat /\ [][NextRepeat]_vars

InitScore ==
    /\ scIn \in ScoringInputs
    /\ scOut = NoScore
    /\ rejections = 0
    /\ rpIn = NoRepeatInput
    /\ rpOut = NoRepeatResult
    /\ vtIn = NoVT
    /\ vtOut = NoResult
    /\ ticketRow = NoRow("absent")
    /\ audit = EmptyBag
    /\ inflight = EmptyBag
    /\ resp = NoReply
    /\ IdleSave
    /\ IdleGenerator
    /\ closedTickets = {}
    /\ IdleAuth

NextScore == ComputeScoreCall

SpecScore == InitScore /\ [][NextScore]_vars

Init ==
    /\ vtIn = NoVT
    /\ vtOut = NoResult
    /\ ticketRow = NoRow("absent")
    /\ audit = EmptyBag
    /\ inflight = EmptyBag
    /\ resp = NoReply
    /\ IdleSave
    /\ IdleGenerator
    /\ closedTickets = {}
    /\ IdleAuth
    /\ scIn = NoInput
    /\ scOut = NoScore
    /\ rejections = 0
    /\ rpIn = NoRepeatInput
    /\ rpOut = NoRepeatResult

\* At most maxInflight handlers suspended, at most maxAudit audit rows
Within(maxInflight, maxAudit) ==
    /\ BagCardinality(inflight') <= maxInflight
    /\ BagCardinality(audit') <= maxAudit
    /\ rejections' <= maxAudit

\* The operations that create a ticket, for tickets of the given areas and
\* categories
CreateStep(areas, categories) ==
    \E area \in areas, category \in categories :
       \/ \E role \in Role, severity \in Severity, isInspection \in BOOLEAN :
             \/ CreateTicket(role, severity, isInspection, area, category)
             \/ ChatCreateTicket(role, severity, isInspection, area, category)
       \/ GenerateDueInstances(area, category)

\* The operations that reach a ticket through the ticket service
ServiceStep ==
    \/ CreateStep({DefaultArea}, {DefaultCategory})
    \/ \E photoType \in PhotoType : UploadPhoto(photoType)
    \/ \E toStatus \in TicketStatus, role \in Role :
          \/ PatchStatus(toStatus, role)
          \/ ChatUpdateTicketStatus(toStatus, role)
    \/ \E f \in Frames :
          \/ TransitionAudit(f)
          \/ TransitionUpdate(f)

\* The chat tool that writes the status itself
ChatDirectStep(roles) ==
    \/ \E newStatus \in TicketStatus, role \in roles : ChatDirectUpdate(newStatus, role)
    \/ \E f \in Frames :
          \/ ChatDirectWrite(f)
          \/ ChatDirectAudit(f)

\* The chat tool that deletes a ticket
DeleteStep(roles) ==
    \/ \E role \in roles : DeleteTicket(role)
    \/ \E f \in Frames :
          \/ DeletePhotos(f)
          \/ DeleteAuditLogs(f)
          \/ DeleteInstances(f)
          \/ DeleteRow(f)

\* The ticket service behind its route and its chat tool, and the other two
\* chat tools as the roles they refuse meet them
Next ==
    /\ \/ ServiceStep
       \/ \E newStatus \in TicketStatus : ChatDirectUpdate(newStatus, "employee")
       \/ \E role \in Role \ {"mother"} : DeleteTicket(role)
    /\ Within(MaxInflight, MaxAudit)

Spec == Init /\ [][Next]_vars

NextAuth ==
    /\ \/ \E route \in Route : Authenticate(route)
       \/ \E f \in AuthFrames : AuthenticateRevoked(f) \/ Logout(f)
       \/ TokenCleanup
       \/ ClockTick
    /\ BagCardinality(authCalls') <= MaxAuthInflight

SpecAuth == Init /\ [][NextAuth]_vars

\* The creation of a ticket next to the closed tickets already in storage
MaxClosed == 2

\* Closed tickets of other ids: closed 3 days ago in the new ticket's
\* letter case and in another, 7 days and 1 second ago, of another area,
\* and exactly 7 days ago.  No stored closedAt is later than now.
StoredClosed ==
    { [id |-> "closed-1", area |-> <<"k", "b">>, category |-> <<"b", "k">>,
       closedAt |-> RepeatNow - 3 * 86400000],
      [id |-> "closed-2", area |-> <<"K", "b">>, category |-> <<"b", "K">>,
       closedAt |-> RepeatNow - 3 * 86400000],
      [id |-> "closed-3", area |-> <<"k", "b">>, category |-> <<"b", "k">>,
       closedAt |-> RepeatNow - REPEAT_WINDOW_MS - 1000],
      [id |-> "closed-4", area |-> <<"b", "b">>, category |-> <<"b", "k">>,
       closedAt |-> RepeatNow - 3 * 86400000],
      [id |-> "closed-5", area |-> <<"k", "b">>, category |-> <<"b", "k">>,
       closedAt |-> RepeatNow - REPEAT_WINDOW_MS] }

CreateAreas == {<<"k", "b">>, <<"K", "b">>}

CreateCategories == {<<"b", "k">>, <<"b", "K">>}

InitCreate ==
    /\ closedTickets \in {c \in SUBSET StoredClosed : Cardinality(c) <= MaxClosed}
    /\ vtIn = NoVT
    /\ vtOut = NoResult
    /\ ticketRow = NoRow("absent")
    /\ audit = EmptyBag
    /\ inflight = EmptyBag
    /\ resp = NoReply
    /\ IdleSave
    /\ IdleGenerator
    /\ IdleAuth
    /\ scIn = NoInput
    /\ scOut = NoScore
    /\ rejections = 0
    /\ rpIn = NoRepeatInput
    /\ rpOut = NoRepeatResult

NextCreate == CreateStep(CreateAreas, CreateCategories)

SpecCreate == InitCreate /\ [][NextCreate]_vars

\* Runs of generateDueInstances on one day, at most MaxGenInflight of them
\* at a time
NextGenerate ==
    /\ \/ GenerateFindTemplates
       \/ isTemplateDueToday
       \/ GenerateTicket
       \/ GenerateAudit
       \/ GenerateInstance
       \/ \E pc \in GenPc : GenerateThrows(pc)
    /\ BagCardinality(genCalls') <= MaxGenInflight
    /\ generatedTickets' <= MaxGenerated

SpecGenerate == Init /\ [][NextGenerate]_vars

\* Calls of computeAndSaveScore for one user, at most MaxSaveInflight of
\* them at a time
NextSave ==
    /\ \/ \E period \in Periods, total \in Totals : ComputeAndSaveScore(period, total)
       \/ \E f \in SaveFrames :
             \/ SaveFindFirst(f)
             \/ SaveUpdate(f)
             \/ SaveCreate(f)
    /\ BagCardinality(saveCalls') <= MaxSaveInflight
    /\ Cardinality(scoreRecords') <= MaxRecords

SpecSave == Init /\ [][NextSave]_vars

\* The ticket service alone, with calls that overlap
NextRace ==
    /\ ServiceStep
    /\ Within(MaxRaceInflight, MaxRaceAudit)

SpecRace == Init /\ [][NextRace]_vars

\* The ticket service and the chat tool that writes the status itself
NextChat ==
    /\ ServiceStep \/ ChatDirectStep(Role)
    /\ Within(MaxChatInflight, MaxChatAudit)

SpecChat == Init /\ [][NextChat]_vars

\* The ticket service and the chat tool that deletes a ticket
NextDelete ==
    /\ ServiceStep \/ DeleteStep(Role)
    /\ Within(MaxDeleteInflight, MaxDeleteAudit)

SpecDelete == Init /\ [][NextDelete]_vars

---------------------------------------------------------------------------
(* Properties of validateTransition (specification SpecVT) *)

Returned == vtOut # NoResult

Authority == {"mother", "father"}

\* The six pairs of the base graph
BasePairs ==
    { <<"open", "in_progress">>, <<"open", "skipped">>,
      <<"in_progress", "needs_review">>, <<"in_progress", "skipped">>,
      <<"needs_review", "closed">>, <<"needs_review", "in_progress">> }

\* The four authority-gated pairs
GatedPairs ==
    { <<"needs_review", "closed">>, <<"needs_review", "in_progress">>,
      <<"open", "skipped">>, <<"in_progress", "skipped">> }

\* C1: validateTransition fails for every call whose from status is closed
\* or skipped, whatever the target status, the actor role and the ticket's
\* recurrence flag.
C1_TerminalFails ==
    (Returned /\ vtIn.from \in {"closed", "skipped"}) => ~vtOut.ok

C1_Witness ==
    /\ Returned
    /\ vtIn.from = "closed" /\ vtIn.to = "in_progress"
    /\ vtIn.role = "mother" /\ vtIn.ticket.isRecurring
    /\ ~vtOut.ok /\ vtOut.cause = "terminal"

\* C2 as claimed: on each of the four gated pairs, for every ticket, the
\* call fails for an employee and succeeds for mother and father.
C2_GatedByRoleAlone ==
    (Returned /\ <<vtIn.from, vtIn.to>> \in GatedPairs) =>
        (vtOut.ok <=> vtIn.role \in Authority)

\* C2, amended: on each of the four gated pairs the call fails for an
\* employee; for mother and father it succeeds on needs_review -> closed and
\* needs_review -> in_progress for every ticket, and on open -> skipped and
\* in_progress -> skipped exactly when the ticket is recurring.
C2_GatedByRoleAndRecurrence ==
    (Returned /\ <<vtIn.from, vtIn.to>> \in GatedPairs) =>
        /\ vtIn.role = "employee" => ~vtOut.ok
        /\ vtIn.role \in Authority =>
              (vtOut.ok <=> (vtIn.to = "skipped" => vtIn.ticket.isRecurring))

C2_Witness ==
    /\ Returned
    /\ vtIn.from = "in_progress" /\ vtIn.to = "skipped"
    /\ vtIn.role = "father" /\ vtIn.ticket.isRecurring
    /\ vtOut.ok

\* C3: validateTransition fails for open -> skipped and for
\* in_progress -> skipped whenever the ticket is not recurring, for every
\* actor role, mother and father included.
C3_SkipNeedsRecurring ==
    (/\ Returned
     /\ vtIn.from \in {"open", "in_progress"} /\ vtIn.to = "skipped"
     /\ ~vtIn.ticket.isRecurring) => ~vtOut.ok

C3_Witness ==
    /\ Returned
    /\ vtIn.from = "open" /\ vtIn.to = "skipped"
    /\ vtIn.role = "mother" /\ ~vtIn.ticket.isRecurring
    /\ ~vtOut.ok /\ vtOut.cause = "not_recurring"

\* C4: validateTransition succeeds exactly when (from, to) is one of the six
\* base pairs, to = skipped implies the ticket is recurring, and the pair
\* being authority-gated implies the role is mother or father; so
\* open -> in_progress and in_progress -> needs_review succeed for every
\* role, and every self-transition and every transition into open fails.
C4_SuccessExactly ==
    Returned =>
        /\ vtOut.ok <=>
              /\ <<vtIn.from, vtIn.to>> \in BasePairs
              /\ vtIn.to = "skipped" => vtIn.ticket.isRecurring
              /\ <<vtIn.from, vtIn.to>> \in GatedPairs => vtIn.role \in Authority
        /\ <<vtIn.from, vtIn.to>> \in
              {<<"open", "in_progress">>, <<"in_progress", "needs_review">>} => vtOut.ok
        /\ (vtIn.from = vtIn.to \/ vtIn.to = "open") => ~vtOut.ok

C4_Witness ==
    /\ Returned
    /\ vtIn.from = "in_progress" /\ vtIn.to = "needs_review"
    /\ vtIn.role = "employee"
    /\ vtOut.ok

\* C5: a successful call returns isRejection = true exactly when
\* from = needs_review and to = in_progress.
C5_RejectionExactly ==
    (Returned /\ vtOut.ok) =>
        (vtOut.isRejection <=> (vtIn.from = "needs_review" /\ vtIn.to = "in_progress"))

C5_Witness ==
    /\ Returned
    /\ vtIn.from = "needs_review" /\ vtIn.to = "in_progress"
    /\ vtIn.role = "mother"
    /\ vtOut.ok /\ vtOut.isRejection

\* C12 as claimed: every error validateTransition throws, whichever of its
\* four causes, carries the ticket's identifier and the attempted transition,
\* both from and to.
C12_ErrorCarriesIdAndTransition ==
    (Returned /\ ~vtOut.ok) =>
        /\ vtOut.id = vtIn.ticket.id
        /\ vtOut.from = vtIn.from
        /\ vtOut.to = vtIn.to

\* the rules of the specification, in its order: the name of the first one
\* the call violates, None when it violates none
FirstRuleViolated ==
    IF vtIn.from \in {"closed", "skipped"} THEN "terminal"
    ELSE IF <<vtIn.from, vtIn.to>> \notin BasePairs THEN "invalid"
    ELSE IF vtIn.to = "skipped" /\ ~vtIn.ticket.isRecurring THEN "not_recurring"
    ELSE IF <<vtIn.from, vtIn.to>> \in GatedPairs /\ vtIn.role \notin Authority
    THEN "authority"
    ELSE None

\* C27: every failing validateTransition call reports exactly one of the four
\* causes, the first rule violated in the order terminal state, invalid base
\* transition, skip on non-recurring, authority required; a call that violates
\* no rule succeeds.
C27_FirstRuleViolatedIsReported ==
    Returned =>
        /\ vtOut.ok <=> FirstRuleViolated = None
        /\ ~vtOut.ok =>
              /\ vtOut.cause \in {"terminal", "invalid", "not_recurring", "authority"}
              /\ vtOut.cause = FirstRuleViolated

\* an employee skipping a ticket that is not recurring: both the skip rule and
\* the authority rule are violated, and the skip rule is the one reported
C27_Witness ==
    /\ Returned
    /\ vtIn.role = "employee"
    /\ vtIn.from = "open" /\ vtIn.to = "skipped"
    /\ ~vtIn.ticket.isRecurring
    /\ vtOut.cause = "not_recurring"

---------------------------------------------------------------------------
(* Properties of the stored ticket (specifications Spec, SpecRace, SpecChat, *)
(* SpecDelete)                                                              *)

\* A step taken on behalf of an employee: a request an employee makes, or a
\* later database call of a handler an employee started
EmployeeStep ==
    \/ \E severity \in Severity, isInspection \in BOOLEAN :
          \/ \E area \in {ticketRow'.area}, category \in {ticketRow'.category} :
                \/ CreateTicket("employee", severity, isInspection, area, category)
                \/ ChatCreateTicket("employee", severity, isInspection, area, category)
    \/ \E toStatus \in TicketStatus :
          \/ PatchStatus(toStatus, "employee")
          \/ ChatUpdateTicketStatus(toStatus, "employee")
          \/ ChatDirectUpdate(toStatus, "employee")
    \/ DeleteTicket("employee")
    \/ \E f \in Frames :
          /\ f.role = "employee"
          /\ \/ TransitionAudit(f)
             \/ TransitionUpdate(f)
             \/ ChatDirectWrite(f)
             \/ ChatDirectAudit(f)

BecomesClosed ==
    /\ ticketRow'.state = "live" /\ ticketRow'.status = "closed"
    /\ ~(ticketRow.state = "live" /\ ticketRow.status = "closed")

\* C6 as claimed: once the stored status of a ticket is closed, no
\* operation of any role, through transitionTicket or through the chat
\* update_ticket_status tool, changes the status again.
C6_ClosedStaysClosed ==
    [][(/\ ticketRow.state = "live" /\ ticketRow.status = "closed"
        /\ ticketRow'.state = "live") => ticketRow'.status = "closed"]_vars

\* C7: no step of an operation performed with actor role employee changes
\* the stored status of a ticket to closed, whatever the state of the ticket
\* and whichever entry point the operation came through.
C7_EmployeeNeverCloses ==
    [][BecomesClosed => ~EmployeeStep]_vars

\* An employee asked to close a ticket awaiting review and was refused, and
\* the ticket still awaits review.
C7_Witness ==
    /\ Live /\ ticketRow.status = "needs_review"
    /\ resp.code = "transition_error"
    /\ resp.result.cause = "authority"
    /\ resp.result.role = "employee"
    /\ resp.result.from = "needs_review" /\ resp.result.to = "closed"

\* C8 as claimed: no operation moves the stored status of a ticket into
\* needs_review unless the ticket then has at least one photo and, if it is
\* an inspection, a before photo and an after photo.
C8_ReviewNeedsPhotos ==
    [][(/\ ticketRow'.state = "live" /\ ticketRow'.status = "needs_review"
        /\ ~(ticketRow.state = "live" /\ ticketRow.status = "needs_review"))
       => /\ ticketRow'.photos # {}
          /\ ticketRow'.isInspection =>
                {"before", "after"} \subseteq ticketRow'.photos]_vars

\* C9 as claimed: of two transitionTicket calls that read the same status at
\* most one is applied, so a status write is applied only while the status
\* its call read and validated against is still the stored one.
C9_WriteOnlyOnStatusRead ==
    [][\A f \in Frames :
          (Live /\ TransitionUpdate(f)) => f.from = ticketRow.status]_vars

\* C10 as claimed: audit entries are append-only; every audit row that was
\* written is still there after any operation, delete_ticket included.
C10_AuditAppendOnly ==
    [][audit \sqsubseteq audit']_vars

\* C24 as claimed: transitionTicket writes the audit entry of a transition
\* only after the status update is persisted: whenever an entry from one
\* status to another is added, the stored status is already the entry's
\* target.
C24_AuditAfterStatusWrite ==
    [][\A e \in BagToSet(audit') :
          (e.from # None /\ CopiesIn(e, audit') > CopiesIn(e, audit))
              => (Live /\ ticketRow.status = e.to)]_vars

\* a transitionTicket call that fails: the ticket is not there, the
\* transition is refused, or a needs_review photo requirement is not met
TransitionFails ==
    /\ resp'.code \in {"not_found", "transition_error", "photo_required",
                       "inspection_photos"}
    /\ \E toStatus \in TicketStatus, actorRole \in Role :
          TransitionTicket(toStatus, actorRole)

\* C28: a failing transitionTicket call leaves the ticket's status and
\* closedAt and the audit log exactly as they were.
C28_FailureChangesNothing ==
    [][TransitionFails =>
          /\ ticketRow'.state = ticketRow.state
          /\ ticketRow'.status = ticketRow.status
          /\ ticketRow'.closedAt = ticketRow.closedAt
          /\ audit' = audit]_vars

\* a submission refused for want of a photo: the ticket is still in progress
\* and no audit entry speaks of needs_review
C28_Witness ==
    /\ Live /\ ticketRow.status = "in_progress"
    /\ resp.code = "photo_required"
    /\ ticketRow.photos = {}
    /\ CopiesIn(AuditEntry("in_progress", "needs_review"), audit) = 0

---------------------------------------------------------------------------
(* Properties of computeScore (specification SpecScore)                    *)

Scored == scOut # NoScore

Score == scOut[1]

\* the positions <<ticket, event>> of the events of the input
EventPositions ==
    UNION {{<<i, j>> : j \in DOMAIN scIn.tickets[i].events} : i \in DOMAIN scIn.tickets}

\* how many events of one type the tickets of one severity carry
EventCount(type, severity) ==
    Cardinality({p \in EventPositions :
        /\ scIn.tickets[p[1]].events[p[2]] = type
        /\ scIn.tickets[p[1]].severity = severity})

\* an event count weighted 1 for minor, 2 for needs_fix_today and 4 for
\* immediate_interrupt
Weighted(type) ==
    1 * EventCount(type, "minor")
    + 2 * EventCount(type, "needs_fix_today")
    + 4 * EventCount(type, "immediate_interrupt")

Recurring == {i \in DOMAIN scIn.tickets : scIn.tickets[i].isRecurring}

RecurringSkipped == {i \in Recurring : scIn.tickets[i].wasSkipped}

OneSubmitted == Len(scIn.tickets) = 1 /\ scIn.tickets[1].submittedAt # <<>>

\* the deadlines as the specification states them, in hours
DeadlineHours == [immediate_interrupt |-> 2, needs_fix_today |-> 8, minor |-> 48]

\* minutes from the deadline of the one ticket to its submission
MinutesOver ==
    LET t == scIn.tickets[1]
    IN  (t.submittedAt[1] - t.openedAt) - 60 * DeadlineHours[t.severity]

C16_SpeedPenaltyRealValued ==
    (Scored /\ OneSubmitted /\ MinutesOver > 0) =>
        Score.speed = MathMax(Num(-100), Minus(Num(100), Frac(5 * MinutesOver, 60)))

\* the positions of the tickets of the input that have a submittedAt
Submitted == {i \in DOMAIN scIn.tickets : scIn.tickets[i].submittedAt # <<>>}

\* the sum of the per-ticket speed scores over a set of positions
RECURSIVE SpeedSum(_)
SpeedSum(positions) ==
    IF positions = {} THEN Num(0)
    ELSE LET i == CHOOSE p \in positions : TRUE
         IN  Plus(computeSpeedForTicket(scIn.tickets[i]), SpeedSum(positions \ {i}))

Dimension == {"quality", "consistency", "speed", "volume"}

---------------------------------------------------------------------------
(* Properties of the rejection events of computeAndSaveScore              *)
(* (specification SpecRace)                                               *)

\* services/scoringService.ts, computeAndSaveScore: one 'rejection' event for
\* each audit row of the ticket from needs_review to in_progress
rejectionEvents == CopiesIn(AuditEntry("needs_review", "in_progress"), audit)

\* C11 as claimed: once every transition has returned, the rejection events
\* computeAndSaveScore attributes to the ticket are as many as the transitions
\* from needs_review to in_progress applied to it: each is counted once and
\* nothing else is counted.
C11_RejectionsCountedOnce ==
    (Live /\ inflight = EmptyBag) => rejectionEvents = rejections

---------------------------------------------------------------------------
(* Properties of isRepeatIssue (specification SpecRepeat)                  *)

RepeatReturned == rpOut # NoRepeatResult

RepeatResult == rpOut[1]

\* two strings are equal ignoring letter case
SameIgnoringCase(a, b) ==
    /\ Len(a) = Len(b)
    /\ \A i \in DOMAIN a : a[i] = b[i] \/ {a[i], b[i]} = {"k", "K"}

\* the positions of the candidates that match the new ticket: same area and
\* category ignoring case, closed in the 7 days up to the creation, both ends
\* included
Matches ==
    {i \in DOMAIN rpIn.recentClosedTickets :
        LET t == rpIn.recentClosedTickets[i]
        IN  /\ SameIgnoringCase(t.area, rpIn.newTicket.area)
            /\ SameIgnoringCase(t.category, rpIn.newTicket.category)
            /\ rpIn.newTicket.createdAt - t.closedAt >= 0
            /\ rpIn.newTicket.createdAt - t.closedAt <= 7 * 24 * 3600 * 1000}

\* C21: isRepeat is true exactly when at least one supplied candidate has the
\* new ticket's area and category, ignoring letter case, and a closedAt in
\* the closed interval [createdAt - 7 days, createdAt].
C21_RepeatExactlyOnMatch ==
    RepeatReturned => (RepeatResult.isRepeat <=> Matches # {})

\* a candidate written in another letter case and closed exactly 7 days
\* before the creation is a match
C21_Witness ==
    /\ RepeatReturned
    /\ Len(rpIn.recentClosedTickets) = 1
    /\ rpIn.recentClosedTickets[1].area # rpIn.newTicket.area
    /\ rpIn.recentClosedTickets[1].category # rpIn.newTicket.category
    /\ rpIn.recentClosedTickets[1].closedAt = rpIn.newTicket.createdAt - 7 * 24 * 3600 * 1000
    /\ RepeatResult.isRepeat

\* C22: with several matching candidates previousTicketId is the id of the
\* first one in the order supplied, whichever was closed last; with no match,
\* the empty list included, isRepeat is false and there is no
\* previousTicketId.
C22_FirstMatchInOrder ==
    RepeatReturned =>
        /\ Matches # {} =>
              \E i \in Matches :
                  /\ \A j \in Matches : i <= j
                  /\ RepeatResult.previousTicketId = rpIn.recentClosedTickets[i].id
        /\ Matches = {} =>
              /\ ~RepeatResult.isRepeat
              /\ RepeatResult.previousTicketId = None

\* two matches, the older one first: the older one is returned
C22_Witness ==
    /\ RepeatReturned
    /\ Matches = {1, 2}
    /\ rpIn.recentClosedTickets[1].closedAt < rpIn.recentClosedTickets[2].closedAt
    /\ RepeatResult.previousTicketId = rpIn.recentClosedTickets[1].id

---------------------------------------------------------------------------
(* Properties of authentication (specification SpecAuth)                   *)

\* C26 as claimed: after a successful logout every later request carrying
\* the token is answered 401 by authenticate, whenever it comes and whatever
\* runs of the token-cleanup cron happen in between.
C26_RevokedTokenRejected ==
    authResp.later => authResp.status = "401"

---------------------------------------------------------------------------
(* Properties of the repeat columns of a created ticket *)

\* The ticket has been created, by whichever operation
Created == ticketRow.state = "live"

\* The argument the detector gets for the stored ticket
AsNewTicket ==
    [area |-> ticketRow.area, category |-> ticketRow.category, createdAt |-> RepeatNow]

\* The closed tickets in storage the detector matches with the stored ticket
StoredMatches == {t \in closedTickets : repeatMatch(t, AsNewTicket)}

\* A step of createTicket that inserts the ticket
CreateTicketInserts ==
    /\ \E role \in Role, severity \in Severity, isInspection \in BOOLEAN,
          area \in Strings, category \in Strings :
          CreateTicket(role, severity, isInspection, area, category)
    /\ ticketRow'.state = "live"

\* The two columns are what the detector returns on the closed tickets in
\* storage, in one of their orders
DetectorOnStorage ==
    \E list \in Orderings(closedTickets) :
        LET r == isRepeatIssue(AsNewTicket, list)
        IN  /\ ticketRow.isRepeatIssue = r.isRepeat
            /\ ticketRow.previousTicketId = r.previousTicketId

\* C29 as claimed: the isRepeatIssue flag and previousTicketId that
\* createTicket stores are what isRepeatIssue returns on the new ticket and
\* every closed ticket in storage: the ticket is flagged exactly when some
\* closed ticket whose area and category match ignoring letter case was
\* closed within the preceding 7 days, and previousTicketId names such a
\* ticket, or nothing when there is none.
C29_StoredFlagIsDetectorOnStorage ==
    [][CreateTicketInserts =>
        (DetectorOnStorage /\ (ticketRow.isRepeatIssue <=> StoredMatches # {}))']_vars

\* A step of generateDueInstances that inserts the ticket of a due template
GeneratorInserts ==
    /\ \E area \in Strings, category \in Strings : GenerateDueInstances(area, category)
    /\ ticketRow'.state = "live"

\* C23 as claimed: a ticket created by generateDueInstances has the
\* detector run at its creation and stores the result: its isRepeatIssue
\* flag is true exactly when a ticket of the same area and category was
\* closed within the 7 days before its creation.
C23_GeneratedTicketFlagged ==
    [][GeneratorInserts => (ticketRow.isRepeatIssue <=> StoredMatches # {})']_vars


---------------------------------------------------------------------------
(* Properties of the recurring-instance generator *)

\* C25 as claimed: generateDueInstances creates at most one ticket instance
\* per active template per calendar day, however often it is invoked that
\* day, a retried job and a run that overlaps another included.
C25_OneInstancePerDay ==
    generatedTickets <= 1


---------------------------------------------------------------------------
(* Properties of the stored score records *)

RecordsOf(period) == {r \in scoreRecords : r.period = period}

\* A step leaves the rows of every period but this one as they are
OnlyPeriodWritten(period) ==
    {r \in scoreRecords' : r.period # period} = {r \in scoreRecords : r.period # period}

\* The second half of C30: a step that changes the ScoreRecord rows is the
\* write of a call for one period and changes rows of that period only
ScoreRecordsOfOtherPeriodsKept ==
    [][scoreRecords' # scoreRecords =>
         \E f \in SaveFrames : f.pc \in {"update", "create"} /\ OnlyPeriodWritten(f.period)]_vars

\* C30 as claimed: after any number of computeAndSaveScore calls,
\* concurrent calls for the same user and period included, there is at most
\* one ScoreRecord per (userId, periodStart, periodEnd).
C30_OneRecordPerPeriod ==
    \A period \in Periods : Cardinality(RecordsOf(period)) <= 1

============================================================================
